---- MODULE Spec2Model ----
(***************************************************************************)
(* CSoundGen (Source/SoundGen.cpp): the playback / rendering engine of the *)
(* tracker.  Two contexts: the foreground (main thread) that calls the     *)
(* interface functions, and the engine (player thread) that pumps its      *)
(* thread-message queue and runs IdleLoop whenever the queue is empty.     *)
(***************************************************************************)
EXTENDS Integers, Sequences, FiniteSets, TLC

\* ---------------------------------------------------------------- bounds
MaxQueue == 2      \* thread messages the foreground may have pending
MaxSong  == 1      \* songs (tracks) 0..MaxSong
MaxFrame == 1      \* frames of a song 0..MaxFrame
MaxChan  == 1      \* channels 0..MaxChan
MaxBufferLen == 140   \* buffer lengths 0..MaxBufferLen, in milliseconds
MaxRate  == 2      \* sample rates 1..MaxRate
MaxSize  == 2      \* sample sizes 1..MaxSize
MaxWave  == 4      \* WaveChanged calls and UpdateAPU runs, 0..MaxWave each
MaxSeq   == 3      \* sequences 1..MaxSeq (0 is the null pointer)
MaxPos   == 2      \* sequence positions 0..MaxPos
MaxValue == 1      \* values 1..MaxValue a direct register write may carry

\* ------------------------------------------------------- program constants
WaitPolls   == 40  \* WaitForStop: for (i = 0; i < 40 && IsPlaying(); ++i)
RemovePolls == 50  \* RemoveDocument: for (i = 0; i < 50 && m_pDocument; ++i)
REG_ENABLE_ALL == 15   \* m_pAPU->Write(0x4015, 0x0F)
REG_FIRE_DPCM  == 31   \* m_pAPU->Write(0x4015, 0x1F)
REG_POWER_ON   == 0    \* 0x4015 after CAPU::Reset (all channels disabled)

Songs  == 0..MaxSong
Frames == 0..MaxFrame
Channels == 0..MaxChan
NONE == -1                                      \* chan_id_t::NONE
Notes == {0, 1}                                 \* 0: no note
RegValues == {REG_POWER_ON, REG_ENABLE_ALL, REG_FIRE_DPCM} \cup (1 .. MaxValue)

DefaultBlocks == 2    \* int iBlocks = 2
LagThreshold == 100   \* if (BufferLen > 100)
BlockLen == 66        \* iBlocks += (BufferLen / 66)
SoundSettings ==
    [SampleRate : 1 .. MaxRate, SampleSize : 1 .. MaxSize,
     BufferLen : 0 .. MaxBufferLen]
\* the settings before a channel is opened with them
NoChannel(set) ==
    [SampleRate |-> set.SampleRate, SampleSize |-> set.SampleSize,
     BufferLen |-> set.BufferLen, iBlocks |-> 0]
\* m_csAPULock, m_csRenderer, m_csVisualizerWndLock
Locks == {"apu", "renderer", "vis"}
Contexts == {"fg", "eng"}
Acq(l) == [op |-> "acq", l |-> l]
Rel(l) == [op |-> "rel", l |-> l]
Wait == [op |-> "wait", l |-> "none"]
NoLocks ==
    [held |-> [c \in Contexts |-> {}], op |-> [c \in Contexts |-> "none"],
     prog |-> [c \in Contexts |-> <<>>]]
\* the wave flags after construction; m_bInternalWaveChanged has no
\* initializer in the constructor
NoWave(internal) ==
    [m_bWaveChanged |-> FALSE, m_bInternalWaveChanged |-> internal,
     owed |-> FALSE, pc |-> "idle", calls |-> 0, ticks |-> 0]
SequenceTimeout == 5   \* m_iSequenceTimeout = 5
Sequences == 1 .. MaxSeq
Positions == 0 .. MaxPos
\* m_pSequencePlayPos(NULL), m_iSequencePlayPos(0), m_iSequenceTimeout(0)
NoSequence ==
    [m_pSequencePlayPos |-> 0, m_iSequencePlayPos |-> 0,
     m_iSequenceTimeout |-> 0, Ret |-> 0, accepted |-> 0,
     age |-> SequenceTimeout + 1]
NoWait == [ret |-> "none", seen |-> FALSE]
NoRender == [pRender |-> TRUE, ret |-> "none"]

NoCursor == [song |-> -1, frame |-> -1, queued |-> -1]
\* CPlayerCursor(doc, Track): frame 0, no queued frame
Cursor(s) == [song |-> s, frame |-> 0, queued |-> -1]

VARIABLES
    m_hThread,        \* the engine thread exists
    m_pDocument,      \* "none" | "loaded" | "unloaded" (document, IsFileLoaded)
    m_pAudioDriver,   \* "none" (null) | "closed" | "open"
    m_pWaveRenderer,  \* "none" | "installed" | "rejected" (installed, no
                      \*   output file) | "started" | "running" |
                      \*   "stopping" | "finished"
    sg,               \* fields written by BeginPlayer / HaltPlayer / ResetAPU
    queue,            \* the engine's thread-message queue
    epc,              \* engine position
    fpc,              \* foreground position
    fi,               \* foreground poll counter
    fret,             \* who called WaitForStop
    wsRes,            \* WaitForStop: ret, its result ("none" | "true" |
                      \*   "false"), and seen, whether one of its reads of
                      \*   IsPlaying() found the player not playing
    who,              \* context of the last step: "fg" | "eng"
    fault,            \* the engine dereferenced a null pointer
    sinks,            \* where the block of the current PlayBuffer went
    m_pPreviewSample, \* the preview slot holds a sample
    muted_,           \* muted_[c]: channel c is muted
    m_RecordChannel,  \* the record-armed channel, or NONE
    rtf,              \* RenderToFile: pRender, whether the last call had a
                      \*   render specification; ret, its result
    lk,               \* the three locks: held[c], the locks context c
                      \*   holds; op[c], its operation in progress; prog[c],
                      \*   the lock operations that operation still has to do
    wave,             \* m_bWaveChanged, m_bInternalWaveChanged; owed: a
                      \*   WaveChanged call no UpdateAPU has copied yet;
                      \*   pc, the position inside UpdateAPU; the numbers
                      \*   of calls and of UpdateAPU runs so far
    sq,               \* m_pSequencePlayPos, m_iSequencePlayPos,
                      \*   m_iSequenceTimeout; Ret, what the last
                      \*   GetSequencePlayPos returned; accepted, the
                      \*   sequence of the last accepted SetSequencePlayPos;
                      \*   age, the queries made since it was accepted
    snd               \* Sound settings (SampleRate, SampleSize, BufferLen)
                      \*   and iBlocks, the block count OpenChannel was
                      \*   given for them (0: no channel opened yet)

\* the variables only their own operations touch
miscVars == <<lk, wave, sq>>

\* the variables most steps leave alone
auxVars == <<m_pPreviewSample, muted_, m_RecordChannel, rtf, snd, miscVars>>

vars == <<m_hThread, m_pDocument, m_pAudioDriver, m_pWaveRenderer, sg, queue,
          epc, fpc, fi, fret, wsRes, who, fault, sinks, auxVars>>

\* ------------------------------------------------------------ predicates
\* CSoundGen::IsPlaying -> CSoundDriver::IsPlaying
IsPlaying == sg.playing

\* is_rendering_impl without its test of Finished()
is_rendering_impl_StartedOnly(r) ==
    r \in {"started", "running", "stopping", "finished"}

\* CSoundGen::is_rendering_impl
is_rendering_impl_of(r) == r \in {"started", "running", "stopping"}
is_rendering_impl == is_rendering_impl_of(m_pWaveRenderer)

\* the guard shared by IdleLoop and BeginPlayer
CanRun == m_pDocument = "loaded" /\ m_pAudioDriver = "open"

\* m_pDocument && m_pAudioDriver->... with m_pAudioDriver == nullptr
NullDriverDeref == m_pDocument # "none" /\ m_pAudioDriver = "none"

\* ------------------------------------------------- engine state functions
\* CAPU::Reset: all channels to the power-on state
APUReset(s) == [s EXCEPT !.reg4015 = REG_POWER_ON]

\* CSoundGen::ResetAPU
ResetAPU(s) == [APUReset(s) EXCEPT !.reg4015 = REG_ENABLE_ALL]

\* CSoundGen::MakeSilent
MakeSilent(s) == [APUReset(s) EXCEPT !.note = [c \in Channels |-> 0]]

\* CSoundDriver::StartPlayer
DriverStartPlayer(s, pos) ==
    [s EXCEPT !.playing = TRUE, !.cursor = pos, !.shouldHalt = FALSE]

\* CSoundDriver::StopPlayer
DriverStopPlayer(s) ==
    [s EXCEPT !.playing = FALSE, !.cursor = NoCursor, !.shouldHalt = FALSE]

\* CSoundGen::BeginPlayer
BeginPlayer(s, pos) ==
    IF ~CanRun THEN s
    ELSE MakeSilent(ResetAPU(
           [DriverStartPlayer(s, pos) EXCEPT !.m_bHaltRequest = FALSE,
                                             !.m_bPlayingSingleRow = FALSE,
                                             !.m_iLastTrack = pos.song]))

\* CSoundGen::HaltPlayer
HaltPlayer(s) ==
    [DriverStopPlayer(MakeSilent(s)) EXCEPT !.m_bHaltRequest = FALSE,
                                            !.m_bPlayingSingleRow = FALSE]

\* ------------------------------------------------------------ messages
Msg(t, a) == [type |-> t, arg |-> a]

\* PostThreadMessage from the foreground
CanPost == Len(queue) < MaxQueue

\* --------------------------------------------------------------- Init
InitEngine ==
    /\ m_hThread = FALSE
    /\ m_pDocument = "none"
    /\ m_pAudioDriver = "none"
    /\ m_pWaveRenderer = "none"
    /\ sg = [playing |-> FALSE, cursor |-> NoCursor, shouldHalt |-> FALSE,
             m_bHaltRequest |-> FALSE, m_iLastTrack |-> 0,
             reg4015 |-> REG_POWER_ON, m_bPlayingSingleRow |-> FALSE,
             note |-> [c \in Channels |-> 0]]
    /\ queue = <<>>
    /\ epc = "notstarted"
    /\ fpc = "main"
    /\ fi = 0
    /\ fret = "none"
    /\ wsRes = NoWait
    /\ who = "fg"
    /\ fault = FALSE
    /\ sinks = {}
    /\ m_pPreviewSample = FALSE
    /\ muted_ = [c \in Channels |-> FALSE]
    /\ m_RecordChannel = NONE
    /\ rtf = NoRender
    /\ lk = NoLocks
    /\ sq = NoSequence

Init ==
    /\ InitEngine
    /\ wave = NoWave(FALSE)
    /\ snd = NoChannel([SampleRate |-> 1, SampleSize |-> 1, BufferLen |-> 0])

\* every setting of the sound device as the starting point
InitSettings ==
    /\ InitEngine
    /\ \E set \in SoundSettings : snd = NoChannel(set)
    /\ wave = NoWave(FALSE)

\* either value of the flag the constructor leaves unset
InitWave ==
    /\ InitEngine
    /\ snd = NoChannel([SampleRate |-> 1, SampleSize |-> 1, BufferLen |-> 0])
    /\ \E internal \in BOOLEAN : wave = NoWave(internal)

\* ---------------------------------------------------- engine: start-up
\* CSoundGen::ResetAudioDevice: the device after the call, by what failed
ResetAudioDevice(d, outcome) ==
    CASE outcome = "setup_failed" -> IF d = "none" THEN "none" ELSE "closed"
      [] outcome = "open_failed"  -> "closed"
      [] OTHER                    -> "open"

DeviceOutcomes == {"setup_failed", "open_failed", "ok"}

\* CSoundGen::InitInstance (the thread has been created and resumed)
InitInstance ==
    /\ epc = "notstarted"
    /\ m_pDocument # "none"
    /\ \E o \in DeviceOutcomes :
          m_pAudioDriver' = ResetAudioDevice(m_pAudioDriver, o)
    /\ sg' = ResetAPU(sg)
    /\ m_hThread' = TRUE
    /\ epc' = "idle"
    /\ who' = "eng"
    /\ UNCHANGED auxVars
    /\ UNCHANGED <<m_pDocument, m_pWaveRenderer, queue, fpc, fi, fret, wsRes,
                   fault, sinks>>

\* ------------------------------------------ engine: thread message handlers
Handles(t) ==
    /\ ~fault
    /\ epc = "idle"
    /\ queue # <<>>
    /\ Head(queue).type = t
    /\ queue' = Tail(queue)
    /\ who' = "eng"

\* CSoundGen::OnStartPlayer
OnStartPlayer ==
    /\ Handles("PLAY")
    /\ IF NullDriverDeref
       THEN /\ fault' \in BOOLEAN
            /\ sg' = sg
       ELSE /\ fault' = fault
            /\ sg' = BeginPlayer(sg, Cursor(Head(queue).arg))
    /\ UNCHANGED auxVars
    /\ UNCHANGED <<m_hThread, m_pDocument, m_pAudioDriver, m_pWaveRenderer,
                   epc, fpc, fi, fret, wsRes, sinks>>

\* CSoundGen::OnStopPlayer
OnStopPlayer ==
    /\ Handles("STOP")
    /\ sg' = HaltPlayer(sg)
    /\ UNCHANGED auxVars
    /\ UNCHANGED <<m_hThread, m_pDocument, m_pAudioDriver, m_pWaveRenderer,
                   epc, fpc, fi, fret, wsRes, fault, sinks>>

\* OnResetPlayer without the IsPlaying() test before BeginPlayer
OnResetPlayerState_AlwaysBegins(s, track) ==
    BeginPlayer([s EXCEPT !.m_iLastTrack = track], Cursor(track))

\* CSoundGen::OnResetPlayer
OnResetPlayerState(s, track) ==
    IF s.playing
    THEN BeginPlayer([s EXCEPT !.m_iLastTrack = track], Cursor(track))
    ELSE [s EXCEPT !.m_iLastTrack = track]

OnResetPlayer ==
    /\ Handles("RESET")
    /\ IF IsPlaying /\ NullDriverDeref
       THEN /\ fault' \in BOOLEAN
            /\ sg' = [sg EXCEPT !.m_iLastTrack = Head(queue).arg]
       ELSE /\ fault' = fault
            /\ sg' = OnResetPlayerState(sg, Head(queue).arg)
    /\ UNCHANGED auxVars
    /\ UNCHANGED <<m_hThread, m_pDocument, m_pAudioDriver, m_pWaveRenderer,
                   epc, fpc, fi, fret, wsRes, sinks>>

\* CSoundGen::OnLoadSettings
OnLoadSettings ==
    /\ Handles("LOAD_SETTINGS")
    /\ \E o \in DeviceOutcomes :
          m_pAudioDriver' = ResetAudioDevice(m_pAudioDriver, o)
    /\ UNCHANGED auxVars
    /\ UNCHANGED <<m_hThread, m_pDocument, m_pWaveRenderer, sg,
                   epc, fpc, fi, fret, wsRes, fault, sinks>>

\* CWaveRenderer::Start
RendererStart(r) == IF r \in {"installed", "rejected"} THEN "started" ELSE r

\* CSoundGen::OnStartRender -> StartRendering (ResetBuffer, then Start)
OnStartRender ==
    /\ Handles("START_RENDER")
    /\ IF m_pAudioDriver = "none" \/ m_pWaveRenderer = "none"
       THEN /\ fault' = TRUE
            /\ UNCHANGED <<sg, m_pWaveRenderer>>
       ELSE /\ fault' = fault
            /\ sg' = APUReset(sg)
            /\ m_pWaveRenderer' = RendererStart(m_pWaveRenderer)
    /\ UNCHANGED auxVars
    /\ UNCHANGED <<m_hThread, m_pDocument, m_pAudioDriver,
                   epc, fpc, fi, fret, wsRes, sinks>>

\* CSoundGen::OnWriteAPU
OnWriteAPU ==
    /\ Handles("WRITE_APU")
    /\ sg' = [sg EXCEPT !.reg4015 = Head(queue).arg]
    /\ UNCHANGED auxVars
    /\ UNCHANGED <<m_hThread, m_pDocument, m_pAudioDriver, m_pWaveRenderer,
                   epc, fpc, fi, fret, wsRes, fault, sinks>>

\* CSoundGen::OnSilentAll
OnSilentAll ==
    /\ Handles("SILENT_ALL")
    /\ sg' = MakeSilent(sg)
    /\ UNCHANGED auxVars
    /\ UNCHANGED <<m_hThread, m_pDocument, m_pAudioDriver, m_pWaveRenderer,
                   epc, fpc, fi, fret, wsRes, fault, sinks>>

\* CSoundGen::PlayPreviewSample: the register writes
PlayPreviewSample(s) == [s EXCEPT !.reg4015 = REG_FIRE_DPCM]

\* CSoundGen::OnPreviewSample
OnPreviewSample ==
    /\ Handles("PREVIEW_SAMPLE")
    /\ IF m_pPreviewSample
       THEN /\ sg' = PlayPreviewSample(sg)
            /\ m_pPreviewSample' = FALSE
            /\ fault' = fault
       ELSE /\ fault' = TRUE
            /\ UNCHANGED <<sg, m_pPreviewSample>>
    /\ UNCHANGED <<muted_, m_RecordChannel, rtf, snd, miscVars>>
    /\ UNCHANGED <<m_hThread, m_pDocument, m_pAudioDriver, m_pWaveRenderer,
                   epc, fpc, fi, fret, wsRes, sinks>>

\* CSoundGen::OnSetChip
OnSetChip ==
    /\ Handles("SET_CHIP")
    /\ sg' = [sg EXCEPT !.reg4015 = REG_ENABLE_ALL]
    /\ UNCHANGED auxVars
    /\ UNCHANGED <<m_hThread, m_pDocument, m_pAudioDriver, m_pWaveRenderer,
                   epc, fpc, fi, fret, wsRes, fault, sinks>>

\* CSoundGen::OnRemoveDocument
OnRemoveDocument ==
    /\ Handles("REMOVE_DOCUMENT")
    /\ m_pDocument' = "none"
    /\ UNCHANGED auxVars
    /\ UNCHANGED <<m_hThread, m_pAudioDriver, m_pWaveRenderer, sg,
                   epc, fpc, fi, fret, wsRes, fault, sinks>>

\* ------------------------------------------------- engine: IdleLoop steps
\* CSoundGen::IdleLoop, the test at its top (runs when the queue is empty)
IdleLoop_Enter ==
    /\ ~fault
    /\ epc = "idle"
    /\ queue = <<>>
    /\ IF NullDriverDeref
       THEN /\ fault' \in BOOLEAN
            /\ epc' = epc
       ELSE /\ fault' = fault
            /\ epc' = IF CanRun THEN "tick" ELSE "idle"
    /\ who' = "eng"
    /\ UNCHANGED auxVars
    /\ UNCHANGED <<m_hThread, m_pDocument, m_pAudioDriver, m_pWaveRenderer,
                   sg, queue, fpc, fi, fret, wsRes, sinks>>

\* CWaveRenderer::Tick: what the renderer may become on a tick
RendererTick(r) ==
    IF r = "running" THEN {"running", "stopping", "finished"} ELSE {r}

\* CPlayerCursor: the position after one tick
CursorTick(c) ==
    IF c.queued # -1 THEN [c EXCEPT !.frame = c.queued, !.queued = -1]
    ELSE [c EXCEPT !.frame = (c.frame + 1) % (MaxFrame + 1)]

\* a tick that halts the player as soon as a halt is due, before UpdateAPU
IdleLoop_Tick_HaltsAtOnce ==
    /\ ~fault
    /\ epc = "tick"
    /\ IF IsPlaying
       THEN /\ \E h \in (IF sg.cursor.frame = MaxFrame THEN BOOLEAN
                                                        ELSE {FALSE}) :
                 LET t == [sg EXCEPT !.cursor = CursorTick(sg.cursor),
                                     !.note = [c \in Channels |-> 1],
                                     !.shouldHalt = sg.shouldHalt \/ h]
                 IN  sg' = IF t.shouldHalt \/ t.m_bHaltRequest
                           THEN HaltPlayer(t) ELSE t
            /\ m_pWaveRenderer' \in RendererTick(m_pWaveRenderer)
       ELSE UNCHANGED <<sg, m_pWaveRenderer>>
    /\ epc' = "render"
    /\ who' = "eng"
    /\ UNCHANGED auxVars
    /\ UNCHANGED <<m_hThread, m_pDocument, m_pAudioDriver, queue,
                   fpc, fi, fret, wsRes, fault, sinks>>

\* CSoundDriver::Tick (PlayerTick, which calls CSoundGen::OnTick)
IdleLoop_Tick ==
    /\ ~fault
    /\ epc = "tick"
    /\ IF IsPlaying
       THEN /\ \E h \in (IF sg.cursor.frame = MaxFrame THEN BOOLEAN
                                                        ELSE {FALSE}) :
                 sg' = [sg EXCEPT !.cursor = CursorTick(sg.cursor),
                                  !.note = [c \in Channels |-> 1],
                                  !.shouldHalt = sg.shouldHalt \/ h]
            /\ m_pWaveRenderer' \in RendererTick(m_pWaveRenderer)
       ELSE UNCHANGED <<sg, m_pWaveRenderer>>
    /\ epc' = "render"
    /\ who' = "eng"
    /\ UNCHANGED auxVars
    /\ UNCHANGED <<m_hThread, m_pDocument, m_pAudioDriver, queue,
                   fpc, fi, fret, wsRes, fault, sinks>>

\* CSoundGen::StopRendering
StopRendering(s) ==
    IF is_rendering_impl THEN ResetAPU(HaltPlayer(APUReset(s))) ELSE s

\* CSoundGen::IdleLoop, the "Rendering" block
IdleLoop_Render ==
    /\ ~fault
    /\ epc = "render"
    /\ IF m_pWaveRenderer = "stopping"
       THEN /\ sg' = StopRendering(sg)
            /\ m_pWaveRenderer' = "none"
            /\ queue' = queue
       ELSE IF m_pWaveRenderer = "started"
       THEN /\ m_pWaveRenderer' = "running"
            /\ \E t \in Songs :
                 queue' = IF m_hThread THEN Append(queue, Msg("PLAY", t))
                                       ELSE queue
            /\ sg' = sg
       ELSE UNCHANGED <<sg, m_pWaveRenderer, queue>>
    /\ epc' = "apu"
    /\ who' = "eng"
    /\ UNCHANGED auxVars
    /\ UNCHANGED <<m_hThread, m_pDocument, m_pAudioDriver,
                   fpc, fi, fret, wsRes, fault, sinks>>

\* PlayBuffer without the "return true" after the renderer's FlushBuffer
PlayBuffer_Render_FallsThrough ==
    /\ ~fault
    /\ epc = "apu"
    /\ sinks' = IF m_pWaveRenderer # "none" /\ is_rendering_impl
                THEN {"render"} ELSE {}
    /\ epc' = "pb_live"
    /\ who' = "eng"
    /\ UNCHANGED auxVars
    /\ UNCHANGED <<m_hThread, m_pDocument, m_pAudioDriver, m_pWaveRenderer,
                   sg, queue, fpc, fi, fret, wsRes, fault>>

\* CSoundGen::UpdateAPU, and CSoundGen::PlayBuffer up to its first return
PlayBuffer_Render ==
    /\ ~fault
    /\ epc = "apu"
    /\ IF m_pWaveRenderer # "none" /\ is_rendering_impl
       THEN /\ sinks' = {"render"}
            /\ epc' = "halt"
       ELSE /\ sinks' = {}
            /\ epc' = "pb_live"
    /\ who' = "eng"
    /\ UNCHANGED auxVars
    /\ UNCHANGED <<m_hThread, m_pDocument, m_pAudioDriver, m_pWaveRenderer,
                   sg, queue, fpc, fi, fret, wsRes, fault>>

\* CSoundGen::PlayBuffer: m_pAudioDriver->DoPlayBuffer()
PlayBuffer_Live ==
    /\ ~fault
    /\ epc = "pb_live"
    /\ sinks' = sinks \cup {"live"}
    /\ \E ok \in BOOLEAN : epc' = IF ok THEN "pb_vis" ELSE "halt"
    /\ who' = "eng"
    /\ UNCHANGED auxVars
    /\ UNCHANGED <<m_hThread, m_pDocument, m_pAudioDriver, m_pWaveRenderer,
                   sg, queue, fpc, fi, fret, wsRes, fault>>

\* CSoundGen::PlayBuffer: the graph (visualizer) part
PlayBuffer_Graph ==
    /\ ~fault
    /\ epc = "pb_vis"
    /\ sinks' = IF ~is_rendering_impl THEN sinks \cup {"vis"} ELSE sinks
    /\ epc' = "halt"
    /\ who' = "eng"
    /\ UNCHANGED auxVars
    /\ UNCHANGED <<m_hThread, m_pDocument, m_pAudioDriver, m_pWaveRenderer,
                   sg, queue, fpc, fi, fret, wsRes, fault>>

\* CSoundGen::IdleLoop, the halt test at its end
IdleLoop_Halt ==
    /\ ~fault
    /\ epc = "halt"
    /\ sg' = IF sg.shouldHalt \/ sg.m_bHaltRequest THEN HaltPlayer(sg) ELSE sg
    /\ sinks' = {}
    /\ epc' = "idle"
    /\ who' = "eng"
    /\ UNCHANGED auxVars
    /\ UNCHANGED <<m_hThread, m_pDocument, m_pAudioDriver, m_pWaveRenderer,
                   queue, fpc, fi, fret, wsRes, fault>>

\* ------------------------------------------------ foreground: interface
\* a posting call without its test of the thread handle
Posts_NoThreadTest(m) ==
    /\ ~fault
    /\ fpc = "main"
    /\ CanPost
    /\ queue' = Append(queue, m)
    /\ who' = "fg"

\* a foreground call that posts one message and returns
Posts(m) ==
    /\ ~fault
    /\ fpc = "main"
    /\ m_hThread => CanPost
    /\ queue' = IF m_hThread THEN Append(queue, m) ELSE queue
    /\ who' = "fg"

\* CSoundGen::AssignDocument
AssignDocument ==
    /\ ~fault
    /\ fpc = "main"
    /\ m_pDocument = "none"
    /\ m_pDocument' = "loaded"
    /\ who' = "fg"
    /\ UNCHANGED auxVars
    /\ UNCHANGED <<m_hThread, m_pAudioDriver, m_pWaveRenderer, sg, queue,
                   epc, fpc, fi, fret, wsRes, fault, sinks>>

\* CSoundGen::StartPlayer
StartPlayer ==
    /\ \E t \in Songs : Posts(Msg("PLAY", t))
    /\ UNCHANGED auxVars
    /\ UNCHANGED <<m_hThread, m_pDocument, m_pAudioDriver, m_pWaveRenderer,
                   sg, epc, fpc, fi, fret, wsRes, fault, sinks>>

\* CSoundGen::StopPlayer
StopPlayer ==
    /\ Posts(Msg("STOP", 0))
    /\ UNCHANGED auxVars
    /\ UNCHANGED <<m_hThread, m_pDocument, m_pAudioDriver, m_pWaveRenderer,
                   sg, epc, fpc, fi, fret, wsRes, fault, sinks>>

\* CSoundGen::ResetPlayer
ResetPlayer ==
    /\ m_hThread => m_pDocument # "none"
    /\ \E t \in Songs : Posts(Msg("RESET", t))
    /\ UNCHANGED auxVars
    /\ UNCHANGED <<m_hThread, m_pDocument, m_pAudioDriver, m_pWaveRenderer,
                   sg, epc, fpc, fi, fret, wsRes, fault, sinks>>

\* CSoundGen::LoadSettings
LoadSettings ==
    /\ Posts(Msg("LOAD_SETTINGS", 0))
    /\ UNCHANGED auxVars
    /\ UNCHANGED <<m_hThread, m_pDocument, m_pAudioDriver, m_pWaveRenderer,
                   sg, epc, fpc, fi, fret, wsRes, fault, sinks>>

\* WriteAPU writing the register from the caller's thread instead of posting
WriteAPUEffect_Direct(v) ==
    /\ ~fault
    /\ fpc = "main"
    /\ queue' = queue
    /\ who' = "fg"
    /\ sg' = [sg EXCEPT !.reg4015 = v]

\* CSoundGen::WriteAPU
WriteAPUEffect(v) ==
    /\ Posts(Msg("WRITE_APU", v))
    /\ sg' = sg

WriteAPU ==
    /\ \E v \in RegValues : WriteAPUEffect(v)
    /\ UNCHANGED auxVars
    /\ UNCHANGED <<m_hThread, m_pDocument, m_pAudioDriver, m_pWaveRenderer,
                   epc, fpc, fi, fret, wsRes, fault, sinks>>

\* CSoundGen::MoveToFrame
MoveToFrame ==
    /\ ~fault
    /\ fpc = "main"
    /\ sg.cursor # NoCursor
    /\ \E f \in Frames : sg' = [sg EXCEPT !.cursor.frame = f]
    /\ who' = "fg"
    /\ UNCHANGED auxVars
    /\ UNCHANGED <<m_hThread, m_pDocument, m_pAudioDriver, m_pWaveRenderer,
                   queue, epc, fpc, fi, fret, wsRes, fault, sinks>>

\* CSoundGen::SetQueueFrame
SetQueueFrame ==
    /\ ~fault
    /\ fpc = "main"
    /\ sg.cursor # NoCursor
    /\ \E f \in Frames : sg' = [sg EXCEPT !.cursor.queued = f]
    /\ who' = "fg"
    /\ UNCHANGED auxVars
    /\ UNCHANGED <<m_hThread, m_pDocument, m_pAudioDriver, m_pWaveRenderer,
                   queue, epc, fpc, fi, fret, wsRes, fault, sinks>>

\* CSoundGen::ApplyGlobalState (CSoundDriver::LoadSoundState)
ApplyGlobalState(s) == [s EXCEPT !.note = [c \in Channels |-> 0]]

\* CFamiTrackerDoc::GetActiveNote at the selected row: note 1 on every channel
GetActiveNote(t) == [c \in Channels |-> 1]

\* CSoundGen::QueueNote on every channel that is not muted
QueueNotes(s, n) ==
    [s EXCEPT !.note = [c \in Channels |->
                          IF muted_[c] THEN s.note[c] ELSE n[c]]]

\* CSoundGen::PlaySingleRow; ApplyGlobalState takes m_csAPULock, which the
\* engine holds from UpdateAPU to the end of PlayBuffer
PlaySingleRow ==
    /\ ~fault
    /\ fpc = "main"
    /\ m_pDocument # "none"
    /\ sg.m_bPlayingSingleRow \/ epc \notin {"pb_live", "pb_vis"}
    /\ \E t \in Songs :
          sg' = QueueNotes(
                  [(IF sg.m_bPlayingSingleRow THEN sg ELSE ApplyGlobalState(sg))
                     EXCEPT !.m_iLastTrack = t, !.m_bPlayingSingleRow = TRUE],
                  GetActiveNote(t))
    /\ who' = "fg"
    /\ UNCHANGED auxVars
    /\ UNCHANGED <<m_hThread, m_pDocument, m_pAudioDriver, m_pWaveRenderer,
                   queue, epc, fpc, fi, fret, wsRes, fault, sinks>>

\* CSoundGen::QueueNote called directly (note preview, MIDI input):
\* m_pSoundDriver->QueueNote(Channel, NoteData, Priority)
QueueNote ==
    /\ ~fault
    /\ fpc = "main"
    /\ m_pDocument # "none"
    /\ \E c \in Channels, n \in Notes : sg' = [sg EXCEPT !.note[c] = n]
    /\ who' = "fg"
    /\ UNCHANGED auxVars
    /\ UNCHANGED <<m_hThread, m_pDocument, m_pAudioDriver, m_pWaveRenderer,
                   queue, epc, fpc, fi, fret, wsRes, fault, sinks>>

\* CSoundGen::SetChannelMute
SetChannelMute ==
    /\ ~fault
    /\ fpc = "main"
    /\ \E c \in Channels, mute \in BOOLEAN :
          /\ muted_' = [muted_ EXCEPT ![c] = mute]
          /\ m_RecordChannel' = IF mute /\ c = m_RecordChannel
                                THEN NONE ELSE m_RecordChannel
    /\ who' = "fg"
    /\ UNCHANGED <<m_pPreviewSample, rtf, snd, miscVars>>
    /\ UNCHANGED <<m_hThread, m_pDocument, m_pAudioDriver, m_pWaveRenderer,
                   sg, queue, epc, fpc, fi, fret, wsRes, fault, sinks>>

\* CSoundGen::SetRecordChannel
SetRecordChannel ==
    /\ ~fault
    /\ fpc = "main"
    /\ \E c \in Channels \cup {NONE} : m_RecordChannel' = c
    /\ who' = "fg"
    /\ UNCHANGED <<m_pPreviewSample, muted_, rtf, snd, miscVars>>
    /\ UNCHANGED <<m_hThread, m_pDocument, m_pAudioDriver, m_pWaveRenderer,
                   sg, queue, epc, fpc, fi, fret, wsRes, fault, sinks>>

\* CSoundGen::SilentAll
SilentAll ==
    /\ Posts(Msg("SILENT_ALL", 0))
    /\ UNCHANGED auxVars
    /\ UNCHANGED <<m_hThread, m_pDocument, m_pAudioDriver, m_pWaveRenderer,
                   sg, epc, fpc, fi, fret, wsRes, fault, sinks>>

\* CSoundGen::PreviewSample
PreviewSample ==
    /\ Posts(Msg("PREVIEW_SAMPLE", 0))
    /\ m_pPreviewSample' = IF m_hThread THEN TRUE ELSE m_pPreviewSample
    /\ UNCHANGED <<muted_, m_RecordChannel, rtf, snd, miscVars>>
    /\ UNCHANGED <<m_hThread, m_pDocument, m_pAudioDriver, m_pWaveRenderer,
                   sg, epc, fpc, fi, fret, wsRes, fault, sinks>>

\* CSoundGen::SelectChip: if (IsPlaying()) StopPlayer(); WaitForStop()
SelectChip_Call ==
    /\ ~fault
    /\ fpc = "main"
    /\ (IsPlaying /\ m_hThread) => CanPost
    /\ queue' = IF IsPlaying /\ m_hThread
                THEN Append(queue, Msg("STOP", 0)) ELSE queue
    /\ fpc' = "ws_loop"
    /\ fret' = "sc_post"
    /\ fi' = 0
    /\ who' = "fg"
    /\ UNCHANGED auxVars
    /\ UNCHANGED <<m_hThread, m_pDocument, m_pAudioDriver, m_pWaveRenderer,
                   sg, epc, wsRes, fault, sinks>>

\* CSoundGen::SelectChip: post WM_USER_SET_CHIP unless the wait failed
SelectChip_Post ==
    /\ ~fault
    /\ fpc = "sc_post"
    /\ CanPost
    /\ queue' = IF wsRes.ret = "true" /\ m_hThread
                THEN Append(queue, Msg("SET_CHIP", 0)) ELSE queue
    /\ fpc' = "main"
    /\ wsRes' = NoWait
    /\ who' = "fg"
    /\ UNCHANGED auxVars
    /\ UNCHANGED <<m_hThread, m_pDocument, m_pAudioDriver, m_pWaveRenderer,
                   sg, epc, fi, fret, fault, sinks>>

\* ------------------------------------------------ foreground: WaitForStop
\* CSoundGen::WaitForStop, one evaluation of the loop condition; a poll
\* after the first follows a Sleep(100), in which the engine has run
WaitForStop_Poll ==
    /\ ~fault
    /\ fpc = "ws_loop"
    /\ fi = 0 \/ who = "eng"
    /\ IF fi < WaitPolls /\ IsPlaying
       THEN /\ fi' = fi + 1
            /\ fpc' = fpc
            /\ wsRes' = NoWait
       ELSE /\ fi' = 0
            /\ fpc' = "ws_ret"
            /\ wsRes' = [ret |-> "none", seen |-> ~IsPlaying]
    /\ who' = "fg"
    /\ UNCHANGED auxVars
    /\ UNCHANGED <<m_hThread, m_pDocument, m_pAudioDriver, m_pWaveRenderer,
                   sg, queue, epc, fret, fault, sinks>>

\* CSoundGen::WaitForStop: return !IsPlaying()
WaitForStop_Return ==
    /\ ~fault
    /\ fpc = "ws_ret"
    /\ wsRes' = [ret  |-> IF IsPlaying THEN "false" ELSE "true",
                 seen |-> wsRes.seen \/ ~IsPlaying]
    /\ fpc' = fret
    /\ fret' = "none"
    /\ who' = "fg"
    /\ UNCHANGED auxVars
    /\ UNCHANGED <<m_hThread, m_pDocument, m_pAudioDriver, m_pWaveRenderer,
                   sg, queue, epc, fi, fault, sinks>>

\* ----------------------------------------------- foreground: RenderToFile
\* RenderToFile without the "if (!pRender) return false" test
RenderToFile_Call_NoSpecTest ==
    /\ ~fault
    /\ fpc = "main"
    /\ m_pDocument # "none"
    /\ \E given \in BOOLEAN : rtf' = [pRender |-> given, ret |-> "none"]
    /\ fpc' = IF IsPlaying THEN "rtf_halt" ELSE "rtf_install"
    /\ who' = "fg"
    /\ UNCHANGED <<m_pPreviewSample, muted_, m_RecordChannel, snd, miscVars>>
    /\ UNCHANGED <<m_hThread, m_pDocument, m_pAudioDriver, m_pWaveRenderer,
                   sg, queue, epc, fi, fret, wsRes, fault, sinks>>

\* CSoundGen::RenderToFile: if (!pRender) return false; if (IsPlaying())
RenderToFile_Call ==
    /\ ~fault
    /\ fpc = "main"
    /\ m_pDocument # "none"
    /\ \E given \in BOOLEAN :
          IF given
          THEN /\ rtf' = [pRender |-> TRUE, ret |-> "none"]
               /\ fpc' = IF IsPlaying THEN "rtf_halt" ELSE "rtf_install"
          ELSE /\ rtf' = [pRender |-> FALSE, ret |-> "false"]
               /\ fpc' = "main"
    /\ who' = "fg"
    /\ UNCHANGED <<m_pPreviewSample, muted_, m_RecordChannel, snd, miscVars>>
    /\ UNCHANGED <<m_hThread, m_pDocument, m_pAudioDriver, m_pWaveRenderer,
                   sg, queue, epc, fi, fret, wsRes, fault, sinks>>

\* CSoundGen::RenderToFile: m_bHaltRequest = true; WaitForStop();
RenderToFile_Halt ==
    /\ ~fault
    /\ fpc = "rtf_halt"
    /\ sg' = [sg EXCEPT !.m_bHaltRequest = TRUE]
    /\ fpc' = "ws_loop"
    /\ fret' = "rtf_install"
    /\ fi' = 0
    /\ who' = "fg"
    /\ UNCHANGED auxVars
    /\ UNCHANGED <<m_hThread, m_pDocument, m_pAudioDriver, m_pWaveRenderer,
                   queue, epc, wsRes, fault, sinks>>

\* CSoundGen::RenderToFile from "m_pWaveRenderer = pRender" on: the file
\* opened (SetOutputFile, post WM_USER_START_RENDER, return true) or not
\* (StopPlayer(), return false)
RenderToFileOutcome(opened) ==
    /\ m_pWaveRenderer' = IF opened THEN "installed" ELSE "rejected"
    /\ queue' = IF ~m_hThread THEN queue
                ELSE IF opened THEN Append(queue, Msg("START_RENDER", 0))
                ELSE Append(queue, Msg("STOP", 0))
    /\ rtf' = [rtf EXCEPT !.ret = IF opened THEN "true" ELSE "false"]

\* CSoundGen::RenderToFile: install the renderer, open the file, post
RenderToFile_Install ==
    /\ ~fault
    /\ fpc = "rtf_install"
    /\ CanPost
    /\ \E opened \in BOOLEAN : RenderToFileOutcome(opened)
    /\ fpc' = "main"
    /\ wsRes' = NoWait
    /\ who' = "fg"
    /\ UNCHANGED <<m_pPreviewSample, muted_, m_RecordChannel, snd, miscVars>>
    /\ UNCHANGED <<m_hThread, m_pDocument, m_pAudioDriver, sg,
                   epc, fi, fret, fault, sinks>>

\* --------------------------------------------- foreground: RemoveDocument
\* CSoundGen::RemoveDocument: StopPlayer(); WaitForStop();
RemoveDocument_Call ==
    /\ ~fault
    /\ fpc = "main"
    /\ m_pDocument # "none"
    /\ m_hThread
    /\ CanPost
    /\ queue' = Append(queue, Msg("STOP", 0))
    /\ fpc' = "ws_loop"
    /\ fret' = "rd_post"
    /\ fi' = 0
    /\ who' = "fg"
    /\ UNCHANGED auxVars
    /\ UNCHANGED <<m_hThread, m_pDocument, m_pAudioDriver, m_pWaveRenderer,
                   sg, epc, wsRes, fault, sinks>>

\* CSoundGen::RemoveDocument: PostThreadMessage(WM_USER_REMOVE_DOCUMENT)
RemoveDocument_Post ==
    /\ ~fault
    /\ fpc = "rd_post"
    /\ CanPost
    /\ queue' = Append(queue, Msg("REMOVE_DOCUMENT", 0))
    /\ fpc' = "rd_poll"
    /\ fi' = 0
    /\ who' = "fg"
    /\ UNCHANGED auxVars
    /\ UNCHANGED <<m_hThread, m_pDocument, m_pAudioDriver, m_pWaveRenderer,
                   sg, epc, fret, wsRes, fault, sinks>>

\* the wait for the pointer without its count of 50
RemoveDocument_Poll_Uncounted ==
    /\ ~fault
    /\ fpc = "rd_poll"
    /\ fi = 0 \/ who = "eng"
    /\ IF m_pDocument # "none"
       THEN /\ fi' = fi + 1
            /\ UNCHANGED <<fpc, wsRes>>
       ELSE /\ fi' = 0
            /\ fpc' = "main"
            /\ wsRes' = NoWait
    /\ who' = "fg"
    /\ UNCHANGED auxVars
    /\ UNCHANGED <<m_hThread, m_pDocument, m_pAudioDriver, m_pWaveRenderer,
                   sg, queue, epc, fret, fault, sinks>>

\* CSoundGen::RemoveDocument: the wait for the thread to clear the pointer
RemoveDocument_Poll ==
    /\ ~fault
    /\ fpc = "rd_poll"
    /\ fi = 0 \/ who = "eng"
    /\ IF fi < RemovePolls /\ m_pDocument # "none"
       THEN /\ fi' = fi + 1
            /\ UNCHANGED <<fpc, wsRes>>
       ELSE /\ fi' = 0
            /\ fpc' = "main"
            /\ wsRes' = NoWait
    /\ who' = "fg"
    /\ UNCHANGED auxVars
    /\ UNCHANGED <<m_hThread, m_pDocument, m_pAudioDriver, m_pWaveRenderer,
                   sg, queue, epc, fret, fault, sinks>>

\* a Sleep(100) of a foreground wait elapses while the engine thread is
\* stuck: the engine was scheduled and made no progress
ThreadStuck ==
    /\ ~fault
    /\ m_hThread
    /\ fpc \in {"ws_loop", "rd_poll"}
    /\ who = "fg"
    /\ who' = "eng"
    /\ UNCHANGED auxVars
    /\ UNCHANGED <<m_hThread, m_pDocument, m_pAudioDriver, m_pWaveRenderer,
                   sg, queue, epc, fpc, fi, fret, wsRes, fault, sinks>>

\* ------------------------------------------------------------ the locks
\* the lock operations of each function, in the order of its statements
SetVisualizerWindow_Locks == <<Acq("vis"), Rel("vis")>>
ApplyGlobalState_Locks == <<Acq("apu"), Rel("apu")>>
LoadMachineSettings_Locks == <<Acq("apu"), Rel("apu")>>
IsRendering_Locks == <<Acq("renderer"), Rel("renderer")>>
WaitForStop_Locks == <<Wait>>

\* RenderToFile taking the renderer lock on entry, before it waits
RenderToFile_Locks_LockOnEntry ==
    {<<Acq("renderer"), Wait, Rel("renderer")>>,
     <<Acq("renderer"), Rel("renderer")>>}

\* CSoundGen::RenderToFile: WaitForStop() if playing, then the renderer lock
\* to the end of the function
RenderToFile_Locks ==
    {<<Wait, Acq("renderer"), Rel("renderer")>>,
     <<Acq("renderer"), Rel("renderer")>>}

OnTick_Locks == <<Acq("renderer"), Rel("renderer")>>
ShouldStopPlayer_Locks == <<Acq("renderer"), Rel("renderer")>>
IdleLoop_Locks == <<Acq("renderer"), Rel("renderer")>>
StartRendering_Locks == <<Acq("renderer"), Rel("renderer")>>
OnStopRender_Locks == <<Acq("renderer"), Rel("renderer")>>
ResetAudioDevice_Locks == <<Acq("vis"), Rel("vis")>>

\* CSoundGen::PlayBuffer: the renderer lock if a session is installed,
\* return if it is rendering; else the visualizer lock
PlayBuffer_Locks ==
    {<<Acq("renderer"), Rel("renderer")>>,
     <<Acq("renderer"), Rel("renderer"), Acq("vis"), Rel("vis")>>,
     <<Acq("vis"), Rel("vis")>>}

\* CSoundGen::UpdateAPU: the APU lock around CSoundDriver::UpdateAPU, which
\* may hand a finished block to PlayBuffer
UpdateAPU_Locks ==
    {<<Acq("apu"), Rel("apu")>>} \cup
    {<<Acq("apu")>> \o p \o <<Rel("apu")>> : p \in PlayBuffer_Locks}

Named(name, progs) == {[name |-> name, prog |-> p] : p \in progs}

\* the operations of the foreground that take a lock or wait
ForegroundLockOps ==
    Named("SetVisualizerWindow", {SetVisualizerWindow_Locks}) \cup
    Named("PlaySingleRow", {ApplyGlobalState_Locks}) \cup
    Named("LoadMachineSettings", {LoadMachineSettings_Locks}) \cup
    Named("IsRendering", {IsRendering_Locks}) \cup
    Named("RemoveDocument", {WaitForStop_Locks}) \cup
    Named("RenderToFile", RenderToFile_Locks)

\* the operations of the engine that take a lock
EngineLockOps ==
    Named("OnTick", {OnTick_Locks}) \cup
    Named("ShouldStopPlayer", {ShouldStopPlayer_Locks}) \cup
    Named("IdleLoop", {IdleLoop_Locks}) \cup
    Named("StartRendering", {StartRendering_Locks}) \cup
    Named("OnStopRender", {OnStopRender_Locks}) \cup
    Named("ResetAudioDevice", {ResetAudioDevice_Locks}) \cup
    Named("BeginPlayer", {ApplyGlobalState_Locks}) \cup
    Named("UpdateAPU", UpdateAPU_Locks)

OtherContext(c) == IF c = "fg" THEN "eng" ELSE "fg"

\* context c is at a Lock() of a lock the other context holds
Blocked(c) ==
    /\ lk.prog[c] # <<>>
    /\ Head(lk.prog[c]).op = "acq"
    /\ Head(lk.prog[c]).l \in lk.held[OtherContext(c)]

\* context c enters one of its operations
LockCall(c, ops) ==
    /\ ~fault
    /\ lk.prog[c] = <<>>
    /\ \E o \in ops :
         lk' = [lk EXCEPT !.op[c] = o.name, !.prog[c] = o.prog]

\* context c does the next lock operation of its operation: CSingleLock::Lock
\* once the lock is free, the unlock at the end of the scope, or WaitForStop
LockStep(c) ==
    /\ ~fault
    /\ lk.prog[c] # <<>>
    /\ ~Blocked(c)
    /\ LET o == Head(lk.prog[c])
           rest == Tail(lk.prog[c])
       IN  lk' = [lk EXCEPT
                   !.held[c] = IF o.op = "acq" THEN @ \cup {o.l}
                               ELSE IF o.op = "rel" THEN @ \ {o.l} ELSE @,
                   !.prog[c] = rest,
                   !.op[c] = IF rest = <<>> THEN "none" ELSE @]

LockFrame ==
    UNCHANGED <<m_hThread, m_pDocument, m_pAudioDriver, m_pWaveRenderer, sg,
                queue, epc, fpc, fi, fret, wsRes, who, fault, sinks,
                m_pPreviewSample, muted_, m_RecordChannel, rtf, snd, wave, sq>>

Foreground_LockCall == LockCall("fg", ForegroundLockOps) /\ LockFrame
Foreground_LockStep == LockStep("fg") /\ LockFrame
Engine_LockCall == LockCall("eng", EngineLockOps) /\ LockFrame
Engine_LockStep == LockStep("eng") /\ LockFrame

\* ------------------------------------------------------ the wave flag
WaveFrame ==
    UNCHANGED <<m_hThread, m_pDocument, m_pAudioDriver, m_pWaveRenderer, sg,
                queue, epc, fpc, fi, fret, wsRes, who, fault, sinks,
                m_pPreviewSample, muted_, m_RecordChannel, rtf, snd, lk, sq>>

\* CSoundGen::WaveChanged: m_bWaveChanged = true
WaveChanged ==
    /\ ~fault
    /\ wave.calls < MaxWave
    /\ wave' = [wave EXCEPT !.m_bWaveChanged = TRUE,
                            !.owed = TRUE,
                            !.calls = @ + 1]
    /\ WaveFrame

\* CSoundGen::UpdateAPU: m_bInternalWaveChanged = m_bWaveChanged
UpdateAPU_Copy ==
    /\ ~fault
    /\ wave.pc = "idle"
    /\ wave.ticks < MaxWave
    /\ wave' = [wave EXCEPT !.m_bInternalWaveChanged = wave.m_bWaveChanged,
                            !.owed = wave.owed /\ ~wave.m_bWaveChanged,
                            !.pc = "copied",
                            !.ticks = @ + 1]
    /\ WaveFrame

\* CSoundGen::UpdateAPU: m_bWaveChanged = false
UpdateAPU_Clear ==
    /\ ~fault
    /\ wave.pc = "copied"
    /\ wave' = [wave EXCEPT !.m_bWaveChanged = FALSE, !.pc = "idle"]
    /\ WaveFrame

\* ------------------------------------------- the sequence play position
SequenceFrame ==
    UNCHANGED <<m_hThread, m_pDocument, m_pAudioDriver, m_pWaveRenderer, sg,
                queue, epc, fpc, fi, fret, wsRes, who, fault, sinks,
                m_pPreviewSample, muted_, m_RecordChannel, rtf, snd, lk,
                wave>>

\* CSoundGen::SetSequencePlayPos
SequenceSet(q, pSequence, Pos) ==
    IF pSequence = q.m_pSequencePlayPos
    THEN [q EXCEPT !.m_iSequencePlayPos = Pos,
                   !.m_iSequenceTimeout = SequenceTimeout,
                   !.accepted = pSequence,
                   !.age = 0]
    ELSE q

\* GetSequencePlayPos that goes on counting down and never times out
SequenceQuery_NoTimeout(q, pSequence) ==
    LET pos == IF q.m_pSequencePlayPos # pSequence
               THEN -1 ELSE q.m_iSequencePlayPos
    IN  [q EXCEPT !.m_iSequencePlayPos = pos,
                  !.m_iSequenceTimeout =
                      IF @ = 0 THEN 0 ELSE @ - 1,
                  !.Ret = pos,
                  !.m_pSequencePlayPos = pSequence,
                  !.age = IF @ > SequenceTimeout THEN @ ELSE @ + 1]

\* CSoundGen::GetSequencePlayPos
SequenceQuery(q, pSequence) ==
    LET pos1 == IF q.m_pSequencePlayPos # pSequence
                THEN -1 ELSE q.m_iSequencePlayPos
        pos2 == IF q.m_iSequenceTimeout = 0 THEN -1 ELSE pos1
    IN  [q EXCEPT !.m_iSequencePlayPos = pos2,
                  !.m_iSequenceTimeout =
                      IF @ = 0 THEN 0 ELSE @ - 1,
                  !.Ret = pos2,
                  !.m_pSequencePlayPos = pSequence,
                  !.age = IF @ > SequenceTimeout THEN @ ELSE @ + 1]

SetSequencePlayPos(pSequence, Pos) ==
    /\ ~fault
    /\ sq' = SequenceSet(sq, pSequence, Pos)
    /\ SequenceFrame

GetSequencePlayPos(pSequence) ==
    /\ ~fault
    /\ sq' = SequenceQuery(sq, pSequence)
    /\ SequenceFrame

SetSequencePlayPos_Call ==
    \E pSequence \in Sequences, Pos \in Positions :
        SetSequencePlayPos(pSequence, Pos)

GetSequencePlayPos_Call ==
    \E pSequence \in Sequences : GetSequencePlayPos(pSequence)

\* the block count of a buffer, on the length itself being 100 ms
BlockCount_FromThreshold(BufferLen) ==
    IF BufferLen >= LagThreshold
    THEN DefaultBlocks + (BufferLen \div BlockLen)
    ELSE DefaultBlocks

\* CSoundGen::ResetAudioDevice: int iBlocks = 2; if (BufferLen > 100)
\* iBlocks += (BufferLen / 66).  BufferLen is unsigned and at most 2^32 - 1,
\* so the sum is at most 65075264 and fits the int.
BlockCount(BufferLen) ==
    IF BufferLen > LagThreshold
    THEN DefaultBlocks + (BufferLen \div BlockLen)
    ELSE DefaultBlocks

\* CSoundGen::ResetAudioDevice: OpenChannel(SampleRate, SampleSize, 1,
\* BufferLen, iBlocks)
ResetAudioDevice_OpenChannel ==
    /\ ~fault
    /\ snd.iBlocks = 0
    /\ snd' = [snd EXCEPT !.iBlocks = BlockCount(snd.BufferLen)]
    /\ UNCHANGED <<m_pPreviewSample, muted_, m_RecordChannel, rtf, miscVars>>
    /\ UNCHANGED <<m_hThread, m_pDocument, m_pAudioDriver, m_pWaveRenderer,
                   sg, queue, epc, fpc, fi, fret, wsRes, who, fault, sinks>>

\* ------------------------------------------------------- specifications
\* the two contexts taking and releasing the three locks
NextLocks ==
    \/ Foreground_LockCall \/ Foreground_LockStep
    \/ Engine_LockCall \/ Engine_LockStep

SpecLocks == Init /\ [][NextLocks]_vars

\* wave changes of the instrument editor against the engine's UpdateAPU
NextWave == WaveChanged \/ UpdateAPU_Copy \/ UpdateAPU_Clear

SpecWave == InitWave /\ [][NextWave]_vars

\* the sequence editor's queries against the instrument handlers' updates
NextSequence == SetSequencePlayPos_Call \/ GetSequencePlayPos_Call

SpecSequence == Init /\ [][NextSequence]_vars

\* opening the channel for every setting of the sound device
NextBlocks == ResetAudioDevice_OpenChannel

SpecBlocks == InitSettings /\ [][NextBlocks]_vars

\* the engine's scheduling loop: start-up and the IdleLoop steps
Scheduler ==
    \/ InitInstance
    \/ IdleLoop_Enter
    \/ IdleLoop_Tick
    \/ IdleLoop_Render
    \/ PlayBuffer_Render
    \/ PlayBuffer_Live
    \/ PlayBuffer_Graph
    \/ IdleLoop_Halt

WaitForStop == WaitForStop_Poll \/ WaitForStop_Return

RenderToFile == RenderToFile_Call \/ RenderToFile_Halt \/ RenderToFile_Install

RemoveDocument ==
    RemoveDocument_Call \/ RemoveDocument_Post \/ RemoveDocument_Poll

SelectChip == SelectChip_Call \/ SelectChip_Post

\* playback and rendering: start, render to file, remove the document
NextRender ==
    \/ Scheduler
    \/ OnStartPlayer \/ OnStopPlayer \/ OnStartRender \/ OnRemoveDocument
    \/ AssignDocument \/ StartPlayer
    \/ RenderToFile \/ RemoveDocument \/ WaitForStop

SpecRender == Init /\ [][NextRender]_vars

\* playback against the audio device: start, stop, reset, load settings
NextDevice ==
    \/ Scheduler
    \/ OnStartPlayer \/ OnStopPlayer \/ OnResetPlayer \/ OnLoadSettings
    \/ AssignDocument \/ StartPlayer \/ StopPlayer \/ ResetPlayer
    \/ LoadSettings

SpecDevice == Init /\ [][NextDevice]_vars

\* the foreground's direct accesses to the cursor and the channel state
NextCursor ==
    \/ Scheduler
    \/ OnStartPlayer \/ OnStopPlayer
    \/ AssignDocument \/ StartPlayer \/ StopPlayer
    \/ MoveToFrame \/ SetQueueFrame \/ PlaySingleRow

SpecCursor == Init /\ [][NextCursor]_vars

\* muting: notes queued by the foreground on muted and unmuted channels
NextMute ==
    \/ Scheduler
    \/ OnStartPlayer \/ OnStopPlayer
    \/ AssignDocument \/ StartPlayer \/ StopPlayer
    \/ PlaySingleRow \/ QueueNote \/ SetChannelMute \/ SetRecordChannel

SpecMute == Init /\ [][NextMute]_vars

\* removing the document from an engine that may be stuck
NextRemove ==
    \/ Scheduler
    \/ OnStartPlayer \/ OnStopPlayer \/ OnRemoveDocument
    \/ AssignDocument \/ StartPlayer
    \/ RemoveDocument \/ WaitForStop \/ ThreadStuck

SpecRemove == Init /\ [][NextRemove]_vars

\* the posting interface calls around the start of the engine thread
NextCalls ==
    \/ InitInstance \/ AssignDocument \/ QueueNote
    \/ StartPlayer \/ StopPlayer \/ ResetPlayer \/ LoadSettings
    \/ SilentAll \/ WriteAPU \/ PreviewSample

SpecCalls == Init /\ [][NextCalls]_vars

\* everything that writes APU registers
NextAPU ==
    \/ Scheduler
    \/ OnStartPlayer \/ OnStopPlayer \/ OnWriteAPU \/ OnPreviewSample
    \/ OnSilentAll \/ OnSetChip
    \/ AssignDocument \/ StartPlayer \/ StopPlayer \/ WriteAPU
    \/ PreviewSample \/ SilentAll \/ SelectChip \/ WaitForStop

SpecAPU == Init /\ [][NextAPU]_vars

\* every operation
Next ==
    \/ NextRender \/ NextDevice \/ NextCursor \/ NextCalls \/ NextRemove \/ NextBlocks \/ NextLocks \/ NextWave \/ NextSequence \/ NextMute \/ NextAPU

Spec == Init /\ [][Next]_vars

\* ------------------------------------------------------------- claims
\* C1: rendering always begins from Idle: whenever the engine handles the
\* start-render command (StartRendering runs), the player is not playing.
C1_RenderStartsFromIdle == [][OnStartRender => ~IsPlaying]_vars

\* C2: when RenderToFile is called while the player is playing, the render
\* session is installed and the start-render command posted only after
\* WaitForStop has observed the player not playing (returned true).
C2_InstallOnlyAfterStopObserved ==
    (fpc = "rtf_install" /\ wsRes.ret # "none") => wsRes.seen

\* C3: every PCM block handled by PlayBuffer goes to exactly one sink, the
\* render sink when a render is active and the live device otherwise; no
\* block reaches both, and none reaches the live device or the visualizer
\* while a render is active.
BlockSinksOK ==
    /\ ~({"render", "live"} \subseteq sinks)
    /\ "render" \in sinks => "vis" \notin sinks
    /\ epc = "halt" => (("render" \in sinks) # ("live" \in sinks))

Delivered(sink) == sink \in sinks' /\ sink \notin sinks

C3_OneSinkPerBlock ==
    [][ /\ BlockSinksOK'
        /\ Delivered("render") => is_rendering_impl
        /\ Delivered("live") => ~is_rendering_impl /\ ~is_rendering_impl'
        /\ Delivered("vis") => ~is_rendering_impl /\ ~is_rendering_impl' ]_vars

C3_Witness ==
    /\ epc = "halt"
    /\ sinks = {"render"}
    /\ is_rendering_impl
    /\ IsPlaying

\* C5: when the foreground posts StopPlayer and then calls WaitForStop (as
\* RemoveDocument does) and the engine keeps handling its queue, WaitForStop
\* returns true.
C5_StopThenWaitReturnsTrue == fpc = "rd_post" => wsRes.ret = "true"

\* C6 (as stated): handling a ResetPlayer command replaces the active cursor;
\* when playing, playback restarts with the new cursor and is still playing;
\* when not playing, playback is not started; the selected track becomes the
\* new cursor's song.
C6_ResetReplacesCursor ==
    [][OnResetPlayer =>
         LET t == Head(queue).arg IN
           /\ sg'.m_iLastTrack = t
           /\ IsPlaying => sg'.playing /\ sg'.cursor = Cursor(t)
           /\ ~IsPlaying => ~sg'.playing]_vars

\* C6 (amended): handling a ResetPlayer command makes the selected track the
\* new cursor's song; when playing with a loaded document and an open audio
\* device, playback restarts with the new cursor and is still playing; when
\* playing without an open device the active cursor and the playing state are
\* left as they were; when not playing, playback is not started and the new
\* cursor is discarded.
C6_ResetPlayer ==
    [][OnResetPlayer =>
         LET t == Head(queue).arg IN
           /\ sg'.m_iLastTrack = t
           /\ (IsPlaying /\ CanRun) => sg'.playing /\ sg'.cursor = Cursor(t)
           /\ (IsPlaying /\ ~CanRun) => sg'.playing /\ sg'.cursor = sg.cursor
           /\ ~IsPlaying => ~sg'.playing /\ sg'.cursor = NoCursor]_vars

C6_Witness ==
    /\ IsPlaying
    /\ m_pAudioDriver = "closed"
    /\ sg.cursor.song \in Songs
    /\ sg.m_iLastTrack # sg.cursor.song

\* C7: the playback cursor and the channel runtime state are mutated on the
\* engine context only: no step of the foreground changes them while the
\* engine is inside a scheduling iteration, about to tick the sequencer.
C7_EngineOnlyMutation ==
    [][(who' = "fg" /\ epc = "tick") =>
          (sg'.cursor = sg.cursor /\ sg'.note = sg.note)]_vars

\* C8: every APU register write is executed on the engine context: the
\* register changes only in a step of the engine, a foreground WriteAPU only
\* posts the command, and the write is done by the handler that takes the
\* command from the queue.
C8_RegisterWritesOnEngine ==
    [][ /\ sg'.reg4015 # sg.reg4015 => who' = "eng"
        /\ WriteAPU =>
              /\ sg' = sg
              /\ m_hThread =>
                    \E v \in RegValues :
                       queue' = Append(queue, Msg("WRITE_APU", v))
        /\ OnWriteAPU => sg'.reg4015 = Head(queue).arg ]_vars

C8_Witness ==
    /\ who = "eng"
    /\ sg.reg4015 \notin {REG_POWER_ON, REG_ENABLE_ALL, REG_FIRE_DPCM}

\* C9 (as stated): the player is halted only at a scheduler-iteration
\* boundary (in a command handler between iterations, or at the halt test
\* that ends an iteration), never between the sequencer tick and the APU
\* update of the same iteration.
C9_HaltOnlyAtBoundary ==
    [][(sg.playing /\ ~sg'.playing) => epc \in {"idle", "halt"}]_vars

\* C9 (amended): a stop request halts the player only at a scheduler-iteration
\* boundary; the one halt between the sequencer tick and the APU update is
\* StopRendering's, in the iteration in which the render session reports that
\* rendering should stop.
C9_HaltAtBoundaryOrRenderStop ==
    [][(sg.playing /\ ~sg'.playing) =>
          \/ epc \in {"idle", "halt"}
          \/ epc = "render" /\ m_pWaveRenderer = "stopping"]_vars

C9_Witness ==
    /\ epc = "render"
    /\ m_pWaveRenderer = "stopping"
    /\ IsPlaying
    /\ ~sg.shouldHalt /\ ~sg.m_bHaltRequest

\* C10: when the audio device fails to open, also on the first attempt at
\* engine start, the engine keeps running without fault: while no device is
\* open it never faults on the audio driver.
C10_NoFaultWithoutDevice == m_pAudioDriver # "open" => ~fault

\* C11: when the output file cannot be opened, RenderToFile returns failure,
\* posts no start-render command but a stop command, does not resume
\* playback, and no render is ever active as a result: the session of the
\* rejected request never becomes an active render.
C11_FailedRenderIsRejected ==
    [][ /\ (RenderToFile_Install /\ rtf'.ret = "false") =>
              /\ queue' = IF m_hThread THEN Append(queue, Msg("STOP", 0))
                                       ELSE queue
              /\ ~is_rendering_impl'
              /\ sg' = sg
        /\ m_pWaveRenderer = "rejected" => ~is_rendering_impl' ]_vars

\* C12: RenderToFile called with no render specification returns failure and
\* changes nothing: no halt request, no new render session, no command.
C12_NoSpecNoEffect ==
    [][(RenderToFile_Call /\ ~rtf'.pRender) =>
          /\ rtf'.ret = "false"
          /\ fpc' = "main"
          /\ UNCHANGED <<sg, m_pWaveRenderer, queue>>]_vars

C12_Witness ==
    /\ rtf = [pRender |-> FALSE, ret |-> "false"]
    /\ fpc = "main"
    /\ IsPlaying
    /\ ~sg.m_bHaltRequest

\* C13: the engine holds a render session only between an accepted
\* RenderToFile request and the halt of that render: when the last request
\* that carried a render specification was rejected, the render-session
\* reference is empty.
C13_NoSessionAfterRejection ==
    (rtf.pRender /\ rtf.ret = "false") => m_pWaveRenderer = "none"

\* C14: while a channel is muted, no step of the foreground (PlaySingleRow or
\* a direct QueueNote call) forwards a note on that channel to the sound
\* driver.
C14_MutedChannelGetsNoNote ==
    [][who' = "fg" =>
         \A c \in Channels :
            (muted_[c] /\ sg'.note[c] = 1) => sg.note[c] = 1]_vars

\* C16: while the thread handle is empty, StartPlayer, StopPlayer,
\* ResetPlayer, LoadSettings, SilentAll, WriteAPU and PreviewSample post no
\* command and leave the engine state (playing, halt request, cursor,
\* selected track) and the preview-sample slot as they were.
C16_NoThreadNoEffect ==
    [][(/\ ~m_hThread
        /\ \/ StartPlayer \/ StopPlayer \/ ResetPlayer \/ LoadSettings
           \/ SilentAll \/ WriteAPU \/ PreviewSample)
       => /\ queue' = queue
          /\ sg' = sg
          /\ m_pPreviewSample' = m_pPreviewSample]_vars

\* the calls are made with a document assigned, a note queued and no thread
C16_Witness ==
    /\ ~m_hThread
    /\ m_pDocument = "loaded"
    /\ sg.note[0] = 1
    /\ queue = <<>>
    /\ ~m_pPreviewSample
    /\ ENABLED StartPlayer /\ ENABLED ResetPlayer /\ ENABLED PreviewSample
    /\ ENABLED WriteAPU /\ ENABLED SilentAll

\* position of the foreground inside RemoveDocument, in the order of its
\* statements, and the bound of that position
RemoveDocumentRank ==
    CASE fpc = "ws_loop" -> fi
      [] fpc = "ws_ret"  -> WaitPolls + 1
      [] fpc = "rd_post" -> WaitPolls + 2
      [] fpc = "rd_poll" -> WaitPolls + 3 + fi
      [] OTHER           -> WaitPolls + RemovePolls + 4

\* C17: RemoveDocument always returns: every step of the call moves it
\* forward through a bounded sequence of positions, the wait after posting
\* the remove command polls at most 50 times, the engine handling the
\* command clears the document reference, and the call returns either with
\* the reference empty or, after the 50th poll, with the reference still
\* set and nothing else done.
C17_RemoveDocumentReturns ==
    [][ /\ (WaitForStop \/ RemoveDocument_Post \/ RemoveDocument_Poll)
            => /\ RemoveDocumentRank' > RemoveDocumentRank
               /\ RemoveDocumentRank' <= WaitPolls + RemovePolls + 4
        /\ (RemoveDocument_Poll /\ fpc' = "rd_poll")
            => fi' <= RemovePolls
        /\ OnRemoveDocument => m_pDocument' = "none"
        /\ (RemoveDocument_Poll /\ fpc' = "main")
            => /\ m_pDocument' = "none" \/ fi = RemovePolls
               /\ UNCHANGED <<m_pDocument, queue, sg, m_pWaveRenderer>> ]_vars

\* the 50th poll has elapsed with the engine stuck: the call is about to
\* return with the document reference still set
C17_Witness ==
    /\ fpc = "rd_poll"
    /\ fi = RemovePolls
    /\ m_pDocument = "loaded"
    /\ who = "eng"
    /\ Len(queue) > 0 /\ queue[Len(queue)].type = "REMOVE_DOCUMENT"

\* C18: for every buffer length in milliseconds the block count passed to
\* OpenChannel is 2 + floor(length / 66) when the length is above 100 and 2
\* otherwise, whatever the sample rate and the sample size.
C18_BlockCount ==
    snd.iBlocks # 0 =>
        \E q \in 0 .. snd.BufferLen :
            /\ 66 * q <= snd.BufferLen
            /\ snd.BufferLen < 66 * (q + 1)
            /\ snd.iBlocks = IF snd.BufferLen > 100 THEN 2 + q ELSE 2

\* a channel opened for a buffer of 132 ms, with the larger rate and size
C18_Witness ==
    /\ snd.BufferLen = 132
    /\ snd.iBlocks = 4
    /\ snd.SampleRate = MaxRate
    /\ snd.SampleSize = MaxSize

\* C19: a halt request set while the player is playing, with a document
\* loaded and the device open, is never lost: the flag is cleared only by
\* performing the halt, so the step that clears it leaves the player not
\* playing, whatever commands are pending in the queue.
C19_HaltRequestNeverLost ==
    [][(sg.m_bHaltRequest /\ ~sg'.m_bHaltRequest /\ CanRun)
          => ~sg'.playing]_vars

\* C20: when the engine handles the remove-document command and clears its
\* document reference the player is not playing, in every interleaving of
\* foreground calls and engine steps, a render session posting a start
\* command to the engine included.
C20_RemovedWhileStopped ==
    [][OnRemoveDocument => ~IsPlaying]_vars

\* C21: a start command handled while the document is missing, the file is
\* not loaded or the audio device is not open is a no-op: the playing
\* state, the cursor, the halt-request flag, the selected track and the APU
\* registers are unchanged, the cursor of the command is discarded, and the
\* engine goes on running.
C21_StartWithoutDeviceIsNoOp ==
    [][(OnStartPlayer /\ ~CanRun) => (sg' = sg /\ fault' = fault)]_vars

\* C22: a scheduler iteration with the document absent, the file not
\* loaded or the audio device not open changes nothing: it returns at its
\* first test, so the sequencer is not ticked, no APU update is pushed, no
\* render start or stop is decided and the playing state and the
\* halt-request flag stay as they were, and the engine goes on running.
C22_IdleIterationChangesNothing ==
    [][(IdleLoop_Enter /\ ~CanRun)
          => /\ epc' = "idle"
             /\ fault' = fault
             /\ UNCHANGED <<sg, m_pWaveRenderer, queue, sinks>>]_vars

C24_NoLockDeadlock ==
    /\ ~(Blocked("fg") /\ Blocked("eng"))
    /\ (lk.prog["eng"] # <<>> /\ Head(lk.prog["eng"]).op = "acq"
           /\ lk.held["eng"] # {})
          => /\ lk.held["eng"] = {"apu"}
             /\ Head(lk.prog["eng"]).l \in {"renderer", "vis"}
    /\ (lk.prog["fg"] # <<>> /\ Head(lk.prog["fg"]).op \in {"acq", "wait"})
          => lk.held["fg"] = {}

\* the engine, holding the APU lock in UpdateAPU, waits in PlayBuffer for
\* the renderer lock that RenderToFile holds
C24_Witness ==
    /\ Blocked("eng")
    /\ lk.held["eng"] = {"apu"}
    /\ lk.op["fg"] = "RenderToFile"
    /\ lk.held["fg"] = {"renderer"}

\* C25: every preview-sample command the engine handles finds the preview
\* slot filled: the slot is non-empty whenever PlayPreviewSample runs, also
\* when several PreviewSample calls were made before the engine handled
\* any of them.
C25_PreviewSlotFilled ==
    [][OnPreviewSample => m_pPreviewSample]_vars

\* C26: a WaveChanged notification is never lost: a call that no UpdateAPU
\* has copied yet is still recorded in m_bWaveChanged, so that a later
\* UpdateAPU leaves HasWaveChanged true, however the write interleaves with
\* UpdateAPU's copy and clear of the flag.
C26_WaveChangeNeverLost ==
    wave.owed => wave.m_bWaveChanged

\* C27: after any sequence of SetSequencePlayPos and GetSequencePlayPos
\* calls the timeout counter is within 0..5; GetSequencePlayPos(s) returns
\* a position other than -1 only if s is the sequence of the previous query
\* and a SetSequencePlayPos for s was accepted fewer than 5 queries ago; a
\* SetSequencePlayPos for another sequence than the last queried one
\* changes nothing.
C27_SequencePlayPos ==
    [][ /\ sq'.m_iSequenceTimeout \in 0 .. 5
        /\ \A s \in Sequences :
             (GetSequencePlayPos(s) /\ sq'.Ret # -1)
                => /\ s = sq.m_pSequencePlayPos
                   /\ sq.accepted = s
                   /\ sq.age < 5
        /\ \A s \in Sequences, pos \in Positions :
             (SetSequencePlayPos(s, pos) /\ s # sq.m_pSequencePlayPos)
                => sq' = sq ]_vars

\* the fifth query after an accepted SetSequencePlayPos has returned its
\* position and used up the timeout
C27_Witness ==
    /\ sq.Ret = MaxPos
    /\ sq.age = 5
    /\ sq.m_iSequenceTimeout = 0
    /\ sq.accepted = sq.m_pSequencePlayPos
    /\ sq.accepted = MaxSeq

\* C28: after any sequence of SetChannelMute and SetRecordChannel calls the
\* record-armed channel is never a muted channel.
C28_ArmedChannelNotMuted ==
    m_RecordChannel # NONE => ~muted_[m_RecordChannel]

====
